---------------------------- MODULE Spec2Model ----------------------------
(***************************************************************************)
(* Model of the Volta dashboard's filter-and-aggregation engine:           *)
(*   - DataStore (volta/services/datastore.py): the cached snapshot _df,   *)
(*     the DuckDB table prod.sales, and the operations on them, run by two *)
(*     request threads of the threaded Flask server;                       *)
(*   - FilterParams (volta/utils/filter_params.py): apply / to_sql_where;  *)
(*   - build_params, no_filters_selected and build_unique_values           *)
(*     (volta/routes/dashboard/helpers.py);                                *)
(*   - pie_data, compute_stats, compute_summary                            *)
(*     (volta/routes/dashboard/aggregates.py) and the metric registry;     *)
(*   - the routes that query prod.sales: index, chart_data,                *)
(*     filter_options and options_meterid (volta/routes/dashboard).        *)
(*                                                                         *)
(* Tables are records [cols, rows]: cols is the set of column names, rows  *)
(* a sequence of functions from cols to cells.  A cell is a string token:  *)
(* NA is the missing value (NaN / NaT / None / NULL); the other tokens are *)
(* listed with the conversions that act on them.                           *)
(***************************************************************************)
EXTENDS Integers, Sequences, FiniteSets, TLC

VARIABLES
    df,         \* DataStore._df: None or Some(table)
    sales,      \* DuckDB table prod.sales: None (no such table) or Some(table)
    tmp_df,     \* the view "tmp_df" registered on the shared connection
    csv,        \* the files matching CSV_GLOB: None, or Some(the columns of their header)
    url,        \* whether BUCKET_URL is configured
    nreq,       \* the number of requests the server has taken so far
    req,        \* per request thread, its frame:
                \*   pc       the statement the thread is at
                \*   op       the operation the request runs
                \*   arg      the raw table handed to set_df, or read by load
                \*   ret      the value returned (None or Some(table))
                \*   status   "none", "ok" or "raised"
                \*   fetched  the outcome of the remote fetch of this call
                \*   found    what _table_exists() answered in load
                \*   pre      (history) _df and prod.sales when set_df was invoked
                \*   view     (history) the set_df call that was running when the
                \*            request started: the datasets before it and after it,
                \*            and whether prod.sales existed before it
    fstage,     \* FilterParams scenario: "off", "ready", "applied", "compiled", "done"
    ftable,     \*   the table filtered
    fparams,    \*   the FilterParams
    fkept,      \*   the row numbers apply() kept
    fsql,       \*   <<to_sql_where's result>>, then also the query's result
    bstage,     \* build_params scenario: "off", "start", "columns", "keys", "done"
    bcols,      \*   base_df.columns, in order
    bargs,      \*   request.args: the keys in order, each with its list of values
    bsel,       \*   the dict `selections`, in insertion order
    bout,       \*   <<>>, then <<the FilterParams returned>>
    bunit,      \*   None, then Some(what trunc_unit() of it returned)
    bredir,     \*   None, then Some(what no_filters_selected answered, with
                \*   the date bounds of the dataset it compared with)
    gstage,     \* aggregates scenario: "off", "ready", then the operation that ran
    gtable,     \*   the filtered table handed to the operation
    gmetric,    \*   the metric the request names: None or Some(name)
    gout,       \*   <<>>, then <<what the operation returned>>
    rstage,     \* routes scenario: "off", "ready", then the route that answered
    rbase,      \*   the snapshot get() returns, which prod.sales holds too
    rengine,    \*   "ok", or why run_query raises during the request
    rreq,       \*   the request: freq, the metrics asked, the start date
    rout        \*   <<>>, then <<the response of the route>>

storeVars == <<df, sales, tmp_df, csv, url, nreq, req>>
filterVars == <<fstage, ftable, fparams, fkept, fsql>>
paramVars == <<bstage, bcols, bargs, bsel, bout, bunit, bredir>>
aggVars == <<gstage, gtable, gmetric, gout>>
routeVars == <<rstage, rbase, rengine, rreq, rout>>
vars == <<storeVars, filterVars, paramVars, aggVars, routeVars>>
\* what the DataStore scenario leaves alone
otherVars == <<filterVars, paramVars, aggVars, routeVars>>

-----------------------------------------------------------------------------
(* Bounds of the model *)

\* rows of an uploaded / remote / CSV table in the DataStore scenario
MaxRows == 1

\* requests the server takes in one run of the DataStore scenario
MaxRequests == 3

-----------------------------------------------------------------------------
(* Options and tables *)

None == <<>>
Some(x) == <<x>>
IsSome(o) == Len(o) = 1
Val(o) == o[1]
Elems(o) == {o[i] : i \in 1..Len(o)}

NA == "NA"

Table(cols, rows) == [cols |-> cols, rows |-> rows]

\* pd.DataFrame(): no columns, no rows
EmptyTable == Table({}, <<>>)

\* all sequences over S of length at most n
SeqUpTo(S, n) == UNION {[1..k -> S] : k \in 0..n}

\* the subsequence of s at the indices in I, in order
RECURSIVE Pick(_, _, _)
Pick(s, I, i) ==
    IF i > Len(s) THEN <<>>
    ELSE (IF i \in I THEN <<s[i]>> ELSE <<>>) \o Pick(s, I, i + 1)

-----------------------------------------------------------------------------
(* Configuration (volta/config.py) *)

DATE_COL == "chargedate"
METRICS == {"kwh", "paymoney", "ghc"}
EXCLUDE_COLS == {"chargedate", "chargedate_str", "month", "month_str", "year",
                 "kwh", "ghc", "paymoney", "res"}

\* RES_MAP.get(code), None shown as NA
RES_MAP(code) ==
    CASE code = "N-Resid [0]" -> "Commercial"
      [] code = "Resid [1]" -> "Residential"
      [] OTHER -> NA

-----------------------------------------------------------------------------
(* Cells and their conversions *)

\* datetime64 values, written as ISO dates
ParsedDates == {"2024-01-05", "2024-01-06"}

\* pd.to_datetime(v, errors="coerce", format="%d-%b-%y") on one cell
ToDatetime(v) ==
    CASE v = "05-Jan-24" -> "2024-01-05"
      [] v = "06-Jan-24" -> "2024-01-06"
      [] v \in ParsedDates -> v
      [] OTHER -> NA

\* pd.to_numeric(v, errors="coerce") on one cell
ToNumeric(v) ==
    CASE v \in {"1", "1.0"} -> "1.0"
      [] v \in {"2", "2.0"} -> "2.0"
      [] OTHER -> NA

\* pd.api.types.is_datetime64_any_dtype(df[col])
IsDatetime64(rows, col) ==
    /\ Len(rows) > 0
    /\ \A i \in 1..Len(rows) : rows[i][col] \in ParsedDates \cup {NA}
    /\ \E i \in 1..Len(rows) : rows[i][col] \in ParsedDates

-----------------------------------------------------------------------------
(* DataStore._preprocess *)

\* df.drop_duplicates(): the first of each group of equal rows is kept
DropDuplicates(rows) ==
    Pick(rows, {i \in 1..Len(rows) : \A j \in 1..(i - 1) : rows[j] # rows[i]}, 1)

\* DataStore._clean_nan_rows: df.dropna(how="any")
CleanNanRows(cols, rows) ==
    Pick(rows, {i \in 1..Len(rows) : \A c \in cols : rows[i][c] # NA}, 1)

\* df["res_mapped"] = df["res"].astype(str).map(res_map).fillna("Unknown")
AddResMapped(t) ==
    IF "res" \in t.cols
    THEN Table(t.cols \cup {"res_mapped"},
               [i \in 1..Len(t.rows) |->
                  [c \in t.cols \cup {"res_mapped"} |->
                     IF c = "res_mapped"
                     THEN (IF RES_MAP(t.rows[i]["res"]) = NA THEN "Unknown"
                           ELSE RES_MAP(t.rows[i]["res"]))
                     ELSE t.rows[i][c]]])
    ELSE t

\* the date column parsed, unless it already is of a datetime dtype
CoerceDate(t) ==
    IF DATE_COL \in t.cols /\ ~IsDatetime64(t.rows, DATE_COL)
    THEN Table(t.cols,
               [i \in 1..Len(t.rows) |->
                  [c \in t.cols |-> IF c = DATE_COL THEN ToDatetime(t.rows[i][c])
                                    ELSE t.rows[i][c]]])
    ELSE t

\* every registered measure that is a column goes through pd.to_numeric
CoerceMetrics(t) ==
    Table(t.cols,
          [i \in 1..Len(t.rows) |->
             [c \in t.cols |-> IF c \in METRICS THEN ToNumeric(t.rows[i][c])
                               ELSE t.rows[i][c]]])

Preprocess(t) ==
    CoerceMetrics(CoerceDate(AddResMapped(
        Table(t.cols, CleanNanRows(t.cols, DropDuplicates(t.rows))))))

-----------------------------------------------------------------------------
(* Raw inputs of the DataStore scenario: uploaded files, the remote parquet *)
(* payload, the CSV files on disk                                           *)

\* what a raw file may hold in a column
RawCells(c) ==
    CASE c = DATE_COL -> {"05-Jan-24", "bad"}
      [] c = "kwh" -> {"1"}
      [] c = "country" -> {"GH"}
      [] OTHER -> {"A"}

RawRows(cols) == {r \in [cols -> UNION {RawCells(c) : c \in cols}] :
                    \A c \in cols : r[c] \in RawCells(c)}

RawTables(colsets) ==
    UNION {{Table(cs, rows) : rows \in SeqUpTo(RawRows(cs), MaxRows)} : cs \in colsets}

\* an upload or a remote payload: with the date column, or without it, and
\* with at least one row (the row with the date "bad" is one _preprocess
\* drops, which leaves a snapshot without rows)
UploadTables == {t \in RawTables({{DATE_COL, "kwh"}, {"kwh"}}) : t.rows # <<>>}

\* the headers of the CSV files: as the uploads, or with the columns
\* rebuild_from_csv indexes
CsvColSets == {{DATE_COL, "kwh"}, {"kwh"}, {DATE_COL, "kwh", "country", "category"}}

\* what read_csv_auto reads from files with the header cols
CsvTables(cols) == RawTables({cols})

-----------------------------------------------------------------------------
(* DuckDB statements *)

\* read_csv_auto types a column as a number when every value in it is one
SniffNumeric(rows, c) ==
    \A i \in 1..Len(rows) : rows[i][c] = NA \/ ToNumeric(rows[i][c]) # NA

\* CREATE TABLE prod.sales AS SELECT CAST(try_strptime(date_col, fmt) AS DATE), * EXCLUDE ...
\* FROM read_csv_auto(csv_glob)
CsvIngest(t) ==
    Table(t.cols,
          [i \in 1..Len(t.rows) |->
             [c \in t.cols |->
                IF c = DATE_COL THEN ToDatetime(t.rows[i][c])
                ELSE IF SniffNumeric(t.rows, c) THEN ToNumeric(t.rows[i][c])
                ELSE t.rows[i][c]]])

\* CREATE TABLE prod.sales AS SELECT CAST(date_col AS DATE) AS date_col, * EXCLUDE (date_col)
\* FROM tmp_df: whether DuckDB accepts it
CreateFromTmpOk == IsSome(tmp_df) /\ DATE_COL \in Val(tmp_df).cols /\ ~IsSome(sales)

\* CREATE INDEX ... ON prod.sales(country); CREATE INDEX ... ON prod.sales(category)
IndexOk == IsSome(sales) /\ {"country", "category"} \subseteq Val(sales).cols

\* DataStore._table_exists
TableExists == IsSome(sales)

-----------------------------------------------------------------------------
(* Request threads *)

\* one request that mutates the store and one that reads it, run by two
\* threads of the server
Threads == {"w", "r"}
WriterOps == {"upload", "try", "reload", "rebuild"}
ReaderOps == {"get", "query"}
MayRun(t, o) == IF t = "w" THEN o \in WriterOps ELSE o \in ReaderOps

SetDfPcs == {"sd_assign", "sd_drop", "sd_register", "sd_create", "sd_analyze"}

\* requests.get(url, timeout=...); raise_for_status(); pd.read_parquet(resp.content)
\* "other": an error outside the three caught classes, e.g. ChunkedEncodingError,
\* TooManyRedirects, or the payload not being a parquet file
FetchOutcomes == {"ok", "HTTPError", "ConnectionError", "Timeout", "other"}
CaughtErrors == {"HTTPError", "ConnectionError", "Timeout"}

\* n (history): the rank of the request among those the server took;
\* hit (history): load found the snapshot at `if self._df is not None`;
\* quiet (history): no other request was running when get() was called
IdleFrame == [pc |-> "idle", op |-> "none", arg |-> None, ret |-> None,
              status |-> "none", fetched |-> "none", found |-> FALSE,
              pre |-> None, view |-> None, n |-> 0, hit |-> FALSE,
              quiet |-> FALSE]

\* a thread is free before its first request and after each one
Idle(t) == req[t].pc \in {"idle", "done"}

\* the server takes a request and hands it to thread t
Take(t, o) == Idle(t) /\ MayRun(t, o) /\ nreq < MaxRequests /\ nreq' = nreq + 1
At(t, l) == req[t].pc = l

\* the frame of t changed by the record update u
Goto(t, l) == req' = [req EXCEPT ![t].pc = l]
Finish(t, st, r) ==
    req' = [req EXCEPT ![t].pc = "done", ![t].status = st, ![t].ret = r,
                       ![t].arg = None]

StoreInit ==
    /\ df = None
    /\ sales = None
    /\ tmp_df = None
    /\ csv \in {None} \cup {Some(cs) : cs \in CsvColSets}
    /\ url \in BOOLEAN
    /\ nreq = 0
    /\ req = [t \in Threads |-> IdleFrame]

-----------------------------------------------------------------------------
(* DataStore.set_df, one action per statement.  It is called by the upload *)
(* route, by try_internet_connection and by load (remote payload).         *)

\* the call itself: the frame of a thread entering set_df(raw)
EnterSetDf(t, o, raw, outcome) ==
    req' = [req EXCEPT ![t].pc = "sd_assign", ![t].op = o, ![t].arg = Some(raw),
                       ![t].fetched = outcome,
                       ![t].pre = Some([df |-> df, sales |-> sales])]

\* the frame of a thread that starts operation o at statement l
NewFrame(o, l) == [IdleFrame EXCEPT !.pc = l, !.op = o, !.n = nreq + 1]

\* upload_file: df = pd.read_csv(filepath); datastore.set_df(df)
StartUpload(t) ==
    /\ Take(t, "upload")
    /\ \E raw \in UploadTables :
          req' = [req EXCEPT ![t] = [NewFrame("upload", "sd_assign") EXCEPT
                                       !.arg = Some(raw),
                                       !.pre = Some([df |-> df, sales |-> sales])]]
    /\ UNCHANGED <<df, sales, tmp_df, csv, url, otherVars>>

\* self._df = self._preprocess(df)
SetDfAssign(t) ==
    /\ At(t, "sd_assign")
    /\ df' = Some(Preprocess(Val(req[t].arg)))
    /\ Goto(t, "sd_drop")
    /\ UNCHANGED <<sales, tmp_df, csv, url, nreq, otherVars>>

\* CREATE SCHEMA IF NOT EXISTS prod; DROP TABLE IF EXISTS prod.sales
SetDfDrop(t) ==
    /\ At(t, "sd_drop")
    /\ sales' = None
    /\ Goto(t, "sd_register")
    /\ UNCHANGED <<df, tmp_df, csv, url, nreq, otherVars>>

\* con.register("tmp_df", self._df): self._df is read again
SetDfRegister(t) ==
    /\ At(t, "sd_register")
    /\ IF IsSome(df)
       THEN tmp_df' = df /\ Goto(t, "sd_create")
       ELSE tmp_df' = tmp_df /\ Finish(t, "raised", None)
    /\ UNCHANGED <<df, sales, csv, url, nreq, otherVars>>

\* CREATE TABLE prod.sales AS SELECT CAST(date_col AS DATE) ..., * EXCLUDE ... FROM tmp_df
SetDfCreate(t) ==
    /\ At(t, "sd_create")
    /\ CreateFromTmpOk
    /\ sales' = tmp_df
    /\ Goto(t, "sd_analyze")
    /\ UNCHANGED <<df, tmp_df, csv, url, nreq, otherVars>>

\* the same statement refused by DuckDB: the error leaves set_df
SetDfCreateFails(t) ==
    /\ At(t, "sd_create")
    /\ ~CreateFromTmpOk
    /\ Finish(t, "raised", None)
    /\ UNCHANGED <<df, sales, tmp_df, csv, url, nreq, otherVars>>

\* con.unregister("tmp_df"); ANALYZE prod.sales; then back in the caller:
\* the upload route and try_internet_connection are done, load returns self._df
SetDfAnalyze(t) ==
    /\ At(t, "sd_analyze")
    /\ tmp_df' = None
    /\ IF ~IsSome(sales) THEN Finish(t, "raised", None)
       ELSE IF req[t].op = "get" THEN Goto(t, "ld_ret")
       ELSE Finish(t, "ok", None)
    /\ UNCHANGED <<df, sales, csv, url, nreq, otherVars>>

-----------------------------------------------------------------------------
(* DataStore.get / DataStore.load *)

\* the set_df call another thread is inside, if any
RunningSetDf(t) ==
    IF \E u \in Threads \ {t} : req[u].pc \in SetDfPcs
    THEN LET u == CHOOSE u \in Threads \ {t} : req[u].pc \in SetDfPcs
             before == Val(req[u].pre)
         IN Some([old |-> Elems(before.df)
                          \cup {Preprocess(x) : x \in Elems(before.sales)},
                  new |-> Preprocess(Val(req[u].arg)),
                  hadSales |-> IsSome(before.sales)])
    ELSE None

\* get(copy): df = self.load()
StartGet(t) ==
    /\ Take(t, "get")
    /\ req' = [req EXCEPT ![t] = [NewFrame("get", "ld_check") EXCEPT
                                    !.view = RunningSetDf(t),
                                    !.quiet = \A u \in Threads \ {t} : Idle(u)]]
    /\ UNCHANGED <<df, sales, tmp_df, csv, url, otherVars>>

\* if self._df is not None:
LoadCheck(t) ==
    /\ At(t, "ld_check")
    /\ req' = [req EXCEPT ![t].pc = IF IsSome(df) THEN "ld_ret" ELSE "ld_exists",
                          ![t].hit = IsSome(df)]
    /\ UNCHANGED <<df, sales, tmp_df, csv, url, nreq, otherVars>>

\* return self._df, and in get: df.copy(deep=False), which fails on None
LoadRet(t) ==
    /\ At(t, "ld_ret")
    /\ IF IsSome(df) THEN Finish(t, "ok", df) ELSE Finish(t, "raised", None)
    /\ UNCHANGED <<df, sales, tmp_df, csv, url, nreq, otherVars>>

\* if self._table_exists():
LoadExists(t) ==
    /\ At(t, "ld_exists")
    /\ req' = [req EXCEPT ![t].pc = IF TableExists THEN "ld_select" ELSE "ld_url",
                          ![t].found = TableExists]
    /\ UNCHANGED <<df, sales, tmp_df, csv, url, nreq, otherVars>>

\* raw = con.execute("SELECT * FROM prod.sales;").df(); a failure is logged
\* and load goes on to the remote source
LoadSelect(t) ==
    /\ At(t, "ld_select")
    /\ IF IsSome(sales)
       THEN req' = [req EXCEPT ![t].pc = "ld_pre", ![t].arg = sales]
       ELSE Goto(t, "ld_url")
    /\ UNCHANGED <<df, sales, tmp_df, csv, url, nreq, otherVars>>

\* self._df = self._preprocess(raw)
LoadPre(t) ==
    /\ At(t, "ld_pre")
    /\ df' = Some(Preprocess(Val(req[t].arg)))
    /\ Goto(t, "ld_ret")
    /\ UNCHANGED <<sales, tmp_df, csv, url, nreq, otherVars>>

\* url = self.config.get("BUCKET_URL"); if url: ... is skipped
LoadNoUrl(t) ==
    /\ At(t, "ld_url") /\ ~url
    /\ Goto(t, "ld_fail")
    /\ UNCHANGED <<df, sales, tmp_df, csv, url, nreq, otherVars>>

\* the payload arrives and is parsed: self.set_df(raw)
LoadFetchOk(t) ==
    /\ At(t, "ld_url") /\ url
    /\ \E raw \in UploadTables : EnterSetDf(t, "get", raw, "ok")
    /\ UNCHANGED <<df, sales, tmp_df, csv, url, nreq, otherVars>>

\* except (requests.HTTPError, requests.ConnectionError, requests.Timeout)
LoadFetchCaught(t) ==
    /\ At(t, "ld_url") /\ url
    /\ \E e \in CaughtErrors :
          req' = [req EXCEPT ![t].pc = "ld_fail", ![t].fetched = e]
    /\ UNCHANGED <<df, sales, tmp_df, csv, url, nreq, otherVars>>

\* any other error of the fetch leaves load
LoadFetchOther(t) ==
    /\ At(t, "ld_url") /\ url
    /\ req' = [req EXCEPT ![t].pc = "done", ![t].status = "raised",
                          ![t].fetched = "other"]
    /\ UNCHANGED <<df, sales, tmp_df, csv, url, nreq, otherVars>>

\* self._df = None; return pd.DataFrame()
LoadFail(t) ==
    /\ At(t, "ld_fail")
    /\ df' = None
    /\ Finish(t, "ok", Some(EmptyTable))
    /\ UNCHANGED <<sales, tmp_df, csv, url, nreq, otherVars>>

-----------------------------------------------------------------------------
(* DataStore.try_internet_connection *)

StartTry(t) ==
    /\ Take(t, "try")
    /\ req' = [req EXCEPT ![t] = NewFrame("try", "try_fetch")]
    /\ UNCHANGED <<df, sales, tmp_df, csv, url, otherVars>>

\* if not url: return False
TryNoUrl(t) ==
    /\ At(t, "try_fetch") /\ ~url
    /\ Finish(t, "ok", None)
    /\ UNCHANGED <<df, sales, tmp_df, csv, url, nreq, otherVars>>

TryFetchOk(t) ==
    /\ At(t, "try_fetch") /\ url
    /\ \E raw \in UploadTables : EnterSetDf(t, "try", raw, "ok")
    /\ UNCHANGED <<df, sales, tmp_df, csv, url, nreq, otherVars>>

\* the three caught classes: return False
TryFetchCaught(t) ==
    /\ At(t, "try_fetch") /\ url
    /\ \E e \in CaughtErrors :
          req' = [req EXCEPT ![t].pc = "done", ![t].status = "ok", ![t].fetched = e]
    /\ UNCHANGED <<df, sales, tmp_df, csv, url, nreq, otherVars>>

TryFetchOther(t) ==
    /\ At(t, "try_fetch") /\ url
    /\ req' = [req EXCEPT ![t].pc = "done", ![t].status = "raised",
                          ![t].fetched = "other"]
    /\ UNCHANGED <<df, sales, tmp_df, csv, url, nreq, otherVars>>

-----------------------------------------------------------------------------
(* DataStore.reload, DataStore.rebuild_from_csv, DataStore.run_query *)

\* self._df = None
Reload(t) ==
    /\ Take(t, "reload")
    /\ df' = None
    /\ req' = [req EXCEPT ![t] = [NewFrame("reload", "done") EXCEPT !.status = "ok"]]
    /\ UNCHANGED <<sales, tmp_df, csv, url, otherVars>>

StartRebuild(t) ==
    /\ Take(t, "rebuild")
    /\ req' = [req EXCEPT ![t] = NewFrame("rebuild", "rb_drop")]
    /\ UNCHANGED <<df, sales, tmp_df, csv, url, otherVars>>

\* CREATE SCHEMA IF NOT EXISTS prod; DROP TABLE IF EXISTS prod.sales
RebuildDrop(t) ==
    /\ At(t, "rb_drop")
    /\ sales' = None
    /\ Goto(t, "rb_create")
    /\ UNCHANGED <<df, tmp_df, csv, url, nreq, otherVars>>

\* if not files: logger.warning(...); return
RebuildNoFiles(t) ==
    /\ At(t, "rb_create") /\ ~IsSome(csv)
    /\ Finish(t, "ok", None)
    /\ UNCHANGED <<df, sales, tmp_df, csv, url, nreq, otherVars>>

\* CREATE TABLE prod.sales AS ... FROM read_csv_auto(csv_glob)
RebuildCreate(t) ==
    /\ At(t, "rb_create") /\ IsSome(csv)
    /\ DATE_COL \in Val(csv) /\ ~IsSome(sales)
    /\ \E files \in CsvTables(Val(csv)) : sales' = Some(CsvIngest(files))
    /\ Goto(t, "rb_index")
    /\ UNCHANGED <<df, tmp_df, csv, url, nreq, otherVars>>

\* the statement refused: the files have no date column, or the table is there
RebuildCreateFails(t) ==
    /\ At(t, "rb_create") /\ IsSome(csv)
    /\ ~(DATE_COL \in Val(csv) /\ ~IsSome(sales))
    /\ Finish(t, "raised", None)
    /\ UNCHANGED <<df, sales, tmp_df, csv, url, nreq, otherVars>>

\* ANALYZE prod.sales; CREATE INDEX ... (country); CREATE INDEX ... (category)
RebuildIndex(t) ==
    /\ At(t, "rb_index")
    /\ IF IndexOk THEN Goto(t, "rb_clear") ELSE Finish(t, "raised", None)
    /\ UNCHANGED <<df, sales, tmp_df, csv, url, nreq, otherVars>>

\* self._df = None
RebuildClear(t) ==
    /\ At(t, "rb_clear")
    /\ df' = None
    /\ Finish(t, "ok", None)
    /\ UNCHANGED <<sales, tmp_df, csv, url, nreq, otherVars>>

\* run_query on a statement that reads prod.sales (chart_data and the others)
RunQuery(t) ==
    /\ Take(t, "query")
    /\ req' = [req EXCEPT ![t] = [NewFrame("query", "done") EXCEPT
                                    !.status = IF IsSome(sales) THEN "ok" ELSE "raised",
                                    !.ret = sales,
                                    !.view = RunningSetDf(t)]]
    /\ UNCHANGED <<df, sales, tmp_df, csv, url, otherVars>>

Next ==
    \E t \in Threads :
        \/ StartUpload(t) \/ SetDfAssign(t) \/ SetDfDrop(t) \/ SetDfRegister(t)
        \/ SetDfCreate(t) \/ SetDfCreateFails(t) \/ SetDfAnalyze(t)
        \/ StartGet(t) \/ LoadCheck(t) \/ LoadRet(t) \/ LoadExists(t)
        \/ LoadSelect(t) \/ LoadPre(t) \/ LoadNoUrl(t) \/ LoadFetchOk(t)
        \/ LoadFetchCaught(t) \/ LoadFetchOther(t) \/ LoadFail(t)
        \/ StartTry(t) \/ TryNoUrl(t) \/ TryFetchOk(t) \/ TryFetchCaught(t)
        \/ TryFetchOther(t)
        \/ Reload(t) \/ StartRebuild(t) \/ RebuildDrop(t) \/ RebuildNoFiles(t)
        \/ RebuildCreate(t) \/ RebuildCreateFails(t) \/ RebuildIndex(t)
        \/ RebuildClear(t) \/ RunQuery(t)

\* the other scenarios' variables, where the DataStore scenario leaves them
FilterIdle == fstage = "off" /\ ftable = EmptyTable /\ fparams = <<>>
              /\ fkept = {} /\ fsql = <<>>
ParamsIdle == bstage = "off" /\ bcols = <<>> /\ bargs = <<>> /\ bsel = <<>>
              /\ bout = <<>> /\ bunit = <<>> /\ bredir = <<>>

AggIdle == gstage = "off" /\ gtable = EmptyTable /\ gmetric = <<>> /\ gout = <<>>

RoutesIdle == rstage = "off" /\ rbase = EmptyTable /\ rengine = "ok"
              /\ rreq = <<>> /\ rout = <<>>

\* the DataStore's variables, where the FilterParams scenarios leave them
StoreIdle ==
    /\ df = None /\ sales = None /\ tmp_df = None /\ csv = None
    /\ url = FALSE /\ nreq = 0 /\ req = [t \in Threads |-> IdleFrame]

Init == StoreInit /\ FilterIdle /\ ParamsIdle /\ AggIdle /\ RoutesIdle
Spec == Init /\ [][Next]_vars

-----------------------------------------------------------------------------
(* Properties of the DataStore scenario *)

NoSetDfRunning == \A t \in Threads : req[t].pc \notin SetDfPcs

\* a get() of thread t has returned or raised
GetDone(t) == req[t].pc = "done" /\ req[t].op = "get"

NoDuplicateRows(t) ==
    \A i, j \in 1..Len(t.rows) : i # j => t.rows[i] # t.rows[j]

NoMissingValue(t) ==
    \A i \in 1..Len(t.rows) : \A c \in t.cols : t.rows[i][c] # NA

\* the files on disk are ones rebuild_from_csv builds prod.sales from
CsvUsable == IsSome(csv) /\ {DATE_COL, "country", "category"} \subseteq Val(csv)

\* C1: whenever no set_df call is in progress and the snapshot _df is present,
\* prod.sales exists and holds the same columns and the same rows as _df.
C1_SnapshotEqualsTable ==
    (NoSetDfRunning /\ IsSome(df)) =>
        /\ IsSome(sales)
        /\ Val(sales).cols = Val(df).cols
        /\ Val(sales).rows = Val(df).rows

\* the set_df call a request started under replaces data by data: the store
\* held rows before it, and the new table has the date column and rows
ReplacesData(v) ==
    /\ v.old # {}
    /\ \A o \in v.old : Len(o.rows) > 0
    /\ DATE_COL \in v.new.cols /\ Len(v.new.rows) > 0

\* C2: a get() that starts while set_df(new) is replacing data by data, and
\* that returns without a remote fetch, returns the snapshot or the table of
\* before the call, or the normalized new table.
C2_GetSeesOldOrNew ==
    \A t \in Threads :
        (/\ GetDone(t) /\ req[t].status = "ok" /\ req[t].fetched = "none"
         /\ IsSome(req[t].view) /\ ReplacesData(Val(req[t].view)))
        => Val(req[t].ret) \in Val(req[t].view).old \cup {Val(req[t].view).new}

\* C3: a run_query on prod.sales issued while set_df is replacing data by
\* data, on a store whose prod.sales existed, does not fail for a missing table.
C3_QueryNeverMissesTable ==
    \A t \in Threads :
        (/\ req[t].pc = "done" /\ req[t].op = "query"
         /\ IsSome(req[t].view) /\ Val(req[t].view).hadSales
         /\ ReplacesData(Val(req[t].view)))
        => req[t].status = "ok"

\* C5: load() returns the empty dataset only when all three sources have
\* failed, the local CSV files being the third: not while usable files exist.
C5_EmptyOnlyAfterCsv ==
    \A t \in Threads :
        (GetDone(t) /\ req[t].status = "ok" /\ req[t].ret = Some(EmptyTable))
        => ~CsvUsable

\* C6: a load() whose remote fetch failed, with whatever error, does not raise.
C6_FetchErrorFallsThrough ==
    \A t \in Threads :
        (GetDone(t) /\ req[t].fetched \in CaughtErrors \cup {"other"})
        => req[t].status = "ok"

\* C7: run alone on a store with no prod.sales, no usable CSV files and no
\* remote source or a failing one, get() returns the table with no rows and
\* no columns, does not raise, and leaves the cache empty.
C7_AllFailGivesEmpty ==
    \A t \in Threads :
        (/\ GetDone(t) /\ \A u \in Threads \ {t} : req[u].pc = "idle"
         /\ ~req[t].found /\ req[t].fetched # "ok" /\ ~CsvUsable)
        => /\ req[t].status = "ok"
           /\ req[t].ret = Some(EmptyTable)
           /\ df = None

\* C8: normalizing a cached snapshot, which is _preprocess(raw) of the raw
\* table it was built from, gives the same table again.
C8_PreprocessIdempotent ==
    IsSome(df) => Preprocess(Val(df)) = Val(df)

\* C9: every cached snapshot has no two identical rows and no missing value.
C9_SnapshotIsProcessed ==
    IsSome(df) => NoDuplicateRows(Val(df)) /\ NoMissingValue(Val(df))

\* a reload() of thread u has returned and u has taken no request since
ReloadDone(u) == req[u].pc = "done" /\ req[u].op = "reload"

\* the step of reload(): a thread takes the request and runs its one statement
ReloadStep ==
    \E u \in Threads : Idle(u) /\ req'[u].op = "reload" /\ req'[u].n = nreq + 1

\* thread t has finished the get() that was the first request after a reload()
FirstGetAfterReload(t) ==
    /\ GetDone(t)
    /\ \E u \in Threads \ {t} : ReloadDone(u) /\ req[t].n = req[u].n + 1

\* C19: reload() clears the cached snapshot and changes nothing else
\* (prod.sales, the staging view, the files and the configuration stay), and
\* the first get() after it does not return from the cache: it goes through
\* the acquisition sources again.
C19_ReloadForcesReacquisition ==
    /\ [][ReloadStep => df' = None /\ UNCHANGED <<sales, tmp_df, csv, url>>]_vars
    /\ [](\A t \in Threads : FirstGetAfterReload(t) => ~req[t].hit)

\* a set_df() called by upload_file on thread u has returned
UploadDone(u) == req[u].pc = "done" /\ req[u].op = "upload" /\ req[u].status = "ok"

\* thread t has finished a get() that was called after a set_df() had
\* returned, and the thread of that set_df() has taken no request since
GetAfterUpload(t) ==
    /\ GetDone(t) /\ req[t].quiet
    /\ \E u \in Threads \ {t} : UploadDone(u) /\ req[t].n > req[u].n

\* C20: once set_df() has populated the cache and returned, a later get()
\* with no reload, set_df or rebuild_from_csv in between returns the cached
\* snapshot: it
\* finds it at the first test of load(), does not look for prod.sales, does
\* not fetch, and does not run _preprocess.
C20_CachedSnapshotServed ==
    \A t \in Threads :
        GetAfterUpload(t)
        => /\ req[t].hit
           /\ ~req[t].found
           /\ req[t].fetched = "none"
           /\ req[t].status = "ok"
           /\ IsSome(df) /\ req[t].ret = df

\* thread t runs alone: no other thread has taken a request
Alone(t) == \A u \in Threads \ {t} : req[u].pc = "idle"

\* a rebuild_from_csv() of thread t has returned without raising
RebuildReturned(t) ==
    req[t].pc = "done" /\ req[t].op = "rebuild" /\ req[t].status = "ok"

\* C25: whenever rebuild_from_csv() returns, with or without CSV files,
\* prod.sales exists and the cached snapshot is cleared.
C25_RebuildLeavesTableAndNoSnapshot ==
    \A t \in Threads :
        (RebuildReturned(t) /\ Alone(t)) => IsSome(sales) /\ df = None

\* thread t has finished a get() that found the cache empty and that started
\* while thread u was inside the set_df() of an upload, which has returned
LoadRacedSetDf(t, u) ==
    /\ GetDone(t) /\ ~req[t].hit /\ IsSome(req[t].view)
    /\ UploadDone(u) /\ req[u].n < req[t].n

\* C26: a load() that starts with an empty cache while set_df(new) runs never
\* overwrites the replacement: once both have finished, the snapshot is the
\* normalized new table and prod.sales holds the same table.
C26_LoadKeepsReplacement ==
    \A t \in Threads : \A u \in Threads \ {t} :
        LoadRacedSetDf(t, u)
        => /\ df = Some(Val(req[t].view).new)
           /\ sales = df

\* the set_df() of an upload on thread t has raised
UploadFailed(t) ==
    req[t].pc = "done" /\ req[t].op = "upload" /\ req[t].status = "raised"

\* C27: when set_df raises, the snapshot and prod.sales are what they were
\* when it was called.
C27_FailedSetDfChangesNothing ==
    \A t \in Threads :
        (UploadFailed(t) /\ Alone(t))
        => /\ df = Val(req[t].pre).df
           /\ sales = Val(req[t].pre).sales

-----------------------------------------------------------------------------
(* FilterParams: the pandas path and the SQL path over one table *)

\* most rows of a filtered table, most entries of a selections dict
MaxFilterRows == 2
MaxSelections == 2

\* datetime.date values of January 2024, by day of month
Days == {5, 6}

\* date.isoformat()
IsoFormat(d) == IF d = 5 THEN "2024-01-05" ELSE "2024-01-06"

\* the day a datetime64 cell, or an ISO string bound to a DATE, stands for
DayOf(s) == IF s = "2024-01-05" THEN 5 ELSE 6

\* Python's None inside a list of selection values
PyNone == "<None>"

Range(s) == {s[i] : i \in DOMAIN s}

\* a dict as the sequence of its items, in insertion order
Item(k, v) == [col |-> k, vals |-> v]

\* the list of values as given, nothing removed
KeepVals(vals) == vals

\* [str(v) for v in vals if v not in (None, "")]
RECURSIVE CleanVals(_)
CleanVals(vals) ==
    IF vals = <<>> THEN <<>>
    ELSE IF Head(vals) \in {PyNone, ""} THEN CleanVals(Tail(vals))
    ELSE <<Head(vals)>> \o CleanVals(Tail(vals))

\* the dict `normalized`: the entries with a non-empty list, values cleaned
Normalized(selections) ==
    LET Given(e) == e.vals # <<>>
        given == SelectSeq(selections, Given)
    IN [i \in DOMAIN given |-> Item(given[i].col, CleanVals(given[i].vals))]

\* Series.astype(str) on one cell: a missing float is "nan", a missing
\* datetime is "NaT"
PdStr(col, v) ==
    IF v # NA THEN v ELSE IF col = DATE_COL THEN "NaT" ELSE "nan"

\* CAST(v AS VARCHAR) on one cell: NULL stays NULL
SqlStr(v) == v

\* the loop over normalized.items(): the row numbers still kept
RECURSIVE ApplySelections(_, _, _)
ApplySelections(t, norm, kept) ==
    IF norm = <<>> THEN kept
    ELSE LET e == Head(norm)
             out == IF e.col \in t.cols /\ e.vals # <<>>
                    THEN {i \in kept : PdStr(e.col, t.rows[i][e.col]) \in Range(e.vals)}
                    ELSE kept
         IN ApplySelections(t, Tail(norm), out)

\* out[date_col] >= pd.Timestamp(start): false on NaT
NotBefore(v, d) == v # NA /\ DayOf(v) >= d
NotAfter(v, d) == v # NA /\ DayOf(v) <= d

\* FilterParams.apply(df, date_col): the row numbers of df it keeps
Apply(f, t, date_col) ==
    LET sel == ApplySelections(t, Normalized(f.selections), DOMAIN t.rows)
        from == IF date_col \in t.cols /\ IsSome(f.start)
                THEN {i \in sel : NotBefore(t.rows[i][date_col], Val(f.start))}
                ELSE sel
    IN IF date_col \in t.cols /\ IsSome(f.end)
       THEN {i \in from : NotAfter(t.rows[i][date_col], Val(f.end))}
       ELSE from

\* one clause of the WHERE list, with its number of '?' placeholders
Clause(kind, col, n) == [kind |-> kind, col |-> col, n |-> n]

\* the clause "1=1"
AlwaysTrue == Clause("1=1", "", 0)

\* the date clause and its parameters
DateWhere(f, date_col) ==
    CASE IsSome(f.start) /\ IsSome(f.end) ->
            [where |-> <<Clause("BETWEEN", date_col, 2)>>,
             params |-> <<IsoFormat(Val(f.start)), IsoFormat(Val(f.end))>>]
      [] IsSome(f.start) /\ ~IsSome(f.end) ->
            [where |-> <<Clause(">=", date_col, 1)>>,
             params |-> <<IsoFormat(Val(f.start))>>]
      [] ~IsSome(f.start) /\ IsSome(f.end) ->
            [where |-> <<Clause("<=", date_col, 1)>>,
             params |-> <<IsoFormat(Val(f.end))>>]
      [] OTHER -> [where |-> <<>>, params |-> <<>>]

\* the loop that appends an IN clause for every selection with values,
\* whatever the columns available
RECURSIVE SelectionWhereAll(_, _, _)
SelectionWhereAll(norm, cols, acc) ==
    IF norm = <<>> THEN acc
    ELSE LET e == Head(norm)
         IN SelectionWhereAll(Tail(norm), cols,
                IF e.vals = <<>> THEN acc
                ELSE [where |-> Append(acc.where, Clause("IN", e.col, Len(e.vals))),
                      params |-> acc.params \o e.vals])

\* the loop over normalized.items() that appends the IN clauses
RECURSIVE SelectionWhere(_, _, _)
SelectionWhere(norm, cols, acc) ==
    IF norm = <<>> THEN acc
    ELSE LET e == Head(norm)
             skip == \/ e.vals = <<>>
                     \/ IsSome(cols) /\ e.col \notin Val(cols)
         IN SelectionWhere(Tail(norm), cols,
                IF skip THEN acc
                ELSE [where |-> Append(acc.where, Clause("IN", e.col, Len(e.vals))),
                      params |-> acc.params \o e.vals])

\* a single placeholder, whatever the number of values
OnePlaceholder(n) == <<"?">>

\* ",".join(["?"] * n), as the pieces of the string
RECURSIVE Placeholders(_)
Placeholders(n) ==
    IF n = 0 THEN <<>>
    ELSE IF n = 1 THEN <<"?">>
    ELSE <<"?", ",">> \o Placeholders(n - 1)

\* the f-string of one clause, as the pieces of the string
ClauseText(c) ==
    CASE c.kind = "BETWEEN" -> <<"CAST(", c.col, " AS DATE) BETWEEN ", "?", " AND ", "?">>
      [] c.kind = ">=" -> <<"CAST(", c.col, " AS DATE) >= ", "?">>
      [] c.kind = "<=" -> <<"CAST(", c.col, " AS DATE) <= ", "?">>
      [] c.kind = "IN" -> <<"CAST(", c.col, " AS VARCHAR) IN (">>
                          \o Placeholders(c.n) \o <<")">>
      [] OTHER -> <<"1=1">>

\* the clause texts one after the other, nothing between them
RECURSIVE JoinBare(_)
JoinBare(where) ==
    IF where = <<>> THEN <<>>
    ELSE ClauseText(Head(where)) \o JoinBare(Tail(where))

\* " AND ".join(where) if where else "1=1"
RECURSIVE JoinAnd(_)
JoinAnd(where) ==
    IF where = <<>> THEN <<"1=1">>
    ELSE IF Len(where) = 1 THEN ClauseText(where[1])
    ELSE ClauseText(Head(where)) \o <<" AND ">> \o JoinAnd(Tail(where))

\* FilterParams.to_sql_where(date_col, available_columns): the clauses that
\* " AND " joins, the string they make, and the parameter list
ToSqlWhere(f, date_col, available_columns) ==
    LET q == SelectionWhere(Normalized(f.selections), available_columns,
                            DateWhere(f, date_col))
    IN [clause |-> IF q.where = <<>> THEN <<AlwaysTrue>> ELSE q.where,
        text |-> JoinAnd(q.where),
        params |-> q.params]

\* one clause on one row of prod.sales, its placeholders bound to ps
Holds(row, c, ps) ==
    LET v == row[c.col] IN
    CASE c.kind = "1=1" -> TRUE
      [] c.kind = "BETWEEN" ->
            v # NA /\ DayOf(ps[1]) <= DayOf(v) /\ DayOf(v) <= DayOf(ps[2])
      [] c.kind = ">=" -> v # NA /\ DayOf(v) >= DayOf(ps[1])
      [] c.kind = "<=" -> v # NA /\ DayOf(v) <= DayOf(ps[1])
      [] OTHER -> SqlStr(v) # NA /\ SqlStr(v) \in Range(ps)

\* the conjunction of the clauses on one row, placeholders bound in order
RECURSIVE HoldsAll(_, _, _)
HoldsAll(row, clauses, ps) ==
    IF clauses = <<>> THEN TRUE
    ELSE LET c == Head(clauses) IN
         /\ Holds(row, c, SubSeq(ps, 1, c.n))
         /\ HoldsAll(row, Tail(clauses), SubSeq(ps, c.n + 1, Len(ps)))

\* every column a clause names is a column of the table
Binds(t, clauses) ==
    \A i \in DOMAIN clauses : clauses[i].kind = "1=1" \/ clauses[i].col \in t.cols

\* SELECT ... FROM prod.sales WHERE clause, run with the parameters: a binder
\* error, or the row numbers selected
RunWhere(t, q) ==
    IF ~Binds(t, q.clause) THEN [ok |-> FALSE, rows |-> {}]
    ELSE [ok |-> TRUE,
          rows |-> {i \in DOMAIN t.rows : HoldsAll(t.rows[i], q.clause, q.params)}]

\* cells of a cached snapshot: the date column is datetime64, kwh is float64
FilterCells(c) == IF c = DATE_COL THEN ParsedDates \cup {NA} ELSE {"1.0", NA}

FilterRows(cols) == {r \in [cols -> UNION {FilterCells(c) : c \in cols}] :
                        \A c \in cols : r[c] \in FilterCells(c)}

\* the tables filtered: with and without the date column
FilterTables ==
    UNION {{Table(cs, rows) : rows \in SeqUpTo(FilterRows(cs), MaxFilterRows)} :
              cs \in {{DATE_COL, "kwh"}, {"kwh"}}}

\* columns a selection names ("loc" is no column of the tables) and the lists
\* of values given for them
SelectionCols == {"kwh", "loc"}
SelectionVals == {<<>>, <<"">>, <<PyNone>>, <<"1.0">>, <<"nan">>, <<"", "1.0">>,
                  <<"1.0", "nan">>}

\* the selections dicts: at most MaxSelections items, no key twice
SelectionDicts ==
    {s \in SeqUpTo({Item(c, v) : c \in SelectionCols, v \in SelectionVals},
                   MaxSelections) :
        \A i, j \in DOMAIN s : i # j => s[i].col # s[j].col}

DateBounds == {None} \cup {Some(d) : d \in Days}

FilterInit ==
    /\ StoreIdle /\ ParamsIdle /\ AggIdle /\ RoutesIdle
    /\ fstage = "ready"
    /\ ftable \in FilterTables
    /\ fparams \in [start : DateBounds, end : DateBounds, selections : SelectionDicts]
    /\ fkept = {}
    /\ fsql = <<>>

\* after = params.apply(base, date_col)
FilterApply ==
    /\ fstage = "ready"
    /\ fkept' = Apply(fparams, ftable, DATE_COL)
    /\ fstage' = "applied"
    /\ UNCHANGED <<ftable, fparams, fsql, storeVars, paramVars, aggVars,
                   routeVars>>

\* clause, sql_params = params.to_sql_where(date_col, base.columns)
FilterToSql ==
    /\ fstage = "applied"
    /\ fsql' = <<ToSqlWhere(fparams, DATE_COL, Some(ftable.cols))>>
    /\ fstage' = "compiled"
    /\ UNCHANGED <<ftable, fparams, fkept, storeVars, paramVars, aggVars,
                   routeVars>>

\* datastore.run_query("... WHERE {clause} ...", sql_params)
FilterRunQuery ==
    /\ fstage = "compiled"
    /\ fsql' = Append(fsql, RunWhere(ftable, fsql[1]))
    /\ fstage' = "done"
    /\ UNCHANGED <<ftable, fparams, fkept, storeVars, paramVars, aggVars,
                   routeVars>>

\* the FilterParams without the i-th entry of its selections
WithoutSelection(f, i) ==
    [f EXCEPT !.selections = SubSeq(f.selections, 1, i - 1)
                             \o SubSeq(f.selections, i + 1, Len(f.selections))]

\* a list of values that is empty or holds only empty strings and None
Neutral(vals) == \A k \in DOMAIN vals : vals[k] \in {"", PyNone}

NextFilter == FilterApply \/ FilterToSql \/ FilterRunQuery

SpecFilter == FilterInit /\ [][NextFilter]_vars

\* C4: once both paths have run, the query has not failed and the rows it
\* selects are the rows apply keeps: the same row numbers of the same table.
C4_ApplyMatchesSqlWhere ==
    fstage = "done" => fsql[2].ok /\ fsql[2].rows = fkept

-----------------------------------------------------------------------------
(* build_params: the request's arguments resolved against the columns *)

\* most columns of the dataset, most keys of a request
MaxCols == 2
MaxKeys == 2

\* str.lower() on the names used here
Lower(s) ==
    CASE s \in {"loc", "Loc", "LOC"} -> "loc"
      [] s \in {"chargedate", "ChargeDate"} -> "chargedate"
      [] s \in {"meterid", "MeterID"} -> "meterid"
      [] OTHER -> s

\* MultiDict.getlist(key): the values of the key, [] when absent
RECURSIVE GetList(_, _)
GetList(d, k) ==
    IF d = <<>> THEN <<>>
    ELSE IF Head(d).col = k THEN Head(d).vals
    ELSE GetList(Tail(d), k)

HasKey(d, k) == \E i \in DOMAIN d : d[i].col = k

\* d[k] = v on a dict: a key already there keeps its place
DictSet(d, k, v) ==
    IF HasKey(d, k)
    THEN [i \in DOMAIN d |-> IF d[i].col = k THEN Item(k, v) ELSE d[i]]
    ELSE Append(d, Item(k, v))

\* cols_lc.get(k): the last column whose lower-cased name is k
RECURSIVE ColsLcGet(_, _)
ColsLcGet(cols, k) ==
    IF cols = <<>> THEN None
    ELSE IF Lower(cols[Len(cols)]) = k THEN Some(cols[Len(cols)])
    ELSE ColsLcGet(SubSeq(cols, 1, Len(cols) - 1), k)

\* exact-name lookup of a request key among the columns
ExactColumn(cols, key) == ColsLcGet(cols, key)

\* real_col = cols_lc.get(str(key).lower())
ResolveKey(cols, key) == ColsLcGet(cols, Lower(key))

\* the loop over base_df.columns
RECURSIVE ColumnLoop(_, _, _)
ColumnLoop(cols, args, sel) ==
    IF cols = <<>> THEN sel
    ELSE LET column == Head(cols)
             direct == GetList(args, column)
             values == IF direct = <<>> THEN GetList(args, Lower(column)) ELSE direct
         IN ColumnLoop(Tail(cols), args,
                IF column \in EXCLUDE_COLS \/ values = <<>> THEN sel
                ELSE DictSet(sel, column, values))

\* the loop over args.keys(); keys is what is left of them
RECURSIVE KeyLoop(_, _, _, _)
KeyLoop(keys, cols, args, sel) ==
    IF keys = <<>> THEN sel
    ELSE LET key == Head(keys).col
             real_col == ResolveKey(cols, key)
             vals == GetList(args, key)
             set == /\ ~HasKey(sel, key)
                    /\ IsSome(real_col) /\ Val(real_col) \notin EXCLUDE_COLS
                    /\ vals # <<>>
         IN KeyLoop(Tail(keys), cols, args,
                IF set THEN DictSet(sel, Val(real_col), vals) ELSE sel)

\* args.get(key, default): the first value of the key
ArgsGet(args, k, default) ==
    IF GetList(args, k) = <<>> THEN default ELSE Head(GetList(args, k))

\* str.upper() on the freq values used here
Upper(s) ==
    CASE s \in {"d", "D"} -> "D"
      [] s \in {"w", "W"} -> "W"
      [] s \in {"m", "M"} -> "M"
      [] s = "x" -> "X"
      [] OTHER -> s

\* freq = (args.get("freq") or "D").upper(), D unless D, W or M
BuildFreq(args) ==
    LET given == ArgsGet(args, "freq", "")
        freq == Upper(IF given = "" THEN "D" ELSE given)
    IN IF freq \in {"D", "W", "M"} THEN freq ELSE "D"

\* _parse_date(value): strptime("%Y-%m-%d"), else pd.to_datetime(coerce)
ParseDate(value) ==
    CASE value = "" -> None
      [] value \in ParsedDates -> Some(DayOf(value))
      [] value = "Jan 5 2024" -> Some(5)
      [] OTHER -> None

\* the requests: column keys in several cases, a key of no column, freq and
\* start_date
ArgItems ==
    {Item(k, v) : k \in {"loc", "Loc", "LOC"}, v \in {<<"a">>, <<"b">>}}
    \cup {Item("chargedate", <<"a">>), Item("zone", <<"a">>), Item("MeterID", <<"a">>)}
    \cup {Item("freq", <<"w">>), Item("freq", <<"M">>), Item("freq", <<"x">>)}
    \cup {Item("start_date", <<"2024-01-05">>), Item("start_date", <<"junk">>)}

ArgDicts ==
    {d \in SeqUpTo(ArgItems, MaxKeys) :
        \A i, j \in DOMAIN d : i # j => d[i].col # d[j].col}

\* the datasets' columns: a name in two cases, an excluded name and a
\* case variant of it, and the meter column
ColumnNames == {"loc", "Loc", "chargedate", "ChargeDate", "meterid"}

ColumnLists ==
    {c \in SeqUpTo(ColumnNames, MaxCols) : \A i, j \in DOMAIN c : i # j => c[i] # c[j]}

ParamsInit ==
    /\ StoreIdle /\ FilterIdle /\ AggIdle /\ RoutesIdle
    /\ bstage = "start"
    /\ bcols \in ColumnLists
    /\ bargs \in ArgDicts
    /\ bsel = <<>>
    /\ bout = <<>>
    /\ bunit = None
    /\ bredir = None

\* for column in base_df.columns: ...
BuildColumns ==
    /\ bstage = "start"
    /\ bsel' = ColumnLoop(bcols, bargs, bsel)
    /\ bstage' = "columns"
    /\ UNCHANGED <<bcols, bargs, bout, bunit, bredir, storeVars,
                 filterVars, aggVars, routeVars>>

\* for key in args.keys(): ...
BuildKeys ==
    /\ bstage = "columns"
    /\ bsel' = KeyLoop(bargs, bcols, bargs, bsel)
    /\ bstage' = "keys"
    /\ UNCHANGED <<bcols, bargs, bout, bunit, bredir, storeVars,
                 filterVars, aggVars, routeVars>>

\* freq, metric and return FilterParams(...)
BuildReturn ==
    /\ bstage = "keys"
    /\ bout' = <<[start |-> ParseDate(ArgsGet(bargs, "start_date", "")),
                  end |-> ParseDate(ArgsGet(bargs, "end_date", "")),
                  selections |-> bsel,
                  freq |-> BuildFreq(bargs),
                  metric |-> IF ArgsGet(bargs, "metric", "") = "" THEN None
                             ELSE Some(ArgsGet(bargs, "metric", ""))]>>
    /\ bstage' = "done"
    /\ UNCHANGED <<bcols, bargs, bsel, bunit, bredir, storeVars,
                 filterVars, aggVars, routeVars>>

\* the JSON payload of the POST routes, read from the same request: its
\* "selections" object is the keys that are not fields of the payload
PayloadFields == {"freq", "metric", "start_date", "end_date"}

PayloadSelections(args) ==
    LET IsSelection(e) == e.col \notin PayloadFields
    IN SelectSeq(args, IsSelection)

\* the loop over raw_selections.items() of filter_options, and of
\* options_meterid, which skips the keys that name the meter column
RECURSIVE PayloadLoop(_, _, _, _)
PayloadLoop(raw, cols, skipMeter, sel) ==
    IF raw = <<>> THEN sel
    ELSE LET real_col == ResolveKey(cols, Head(raw).col)
             cleaned == CleanVals(Head(raw).vals)
             set == /\ IsSome(real_col)
                    /\ ~(skipMeter /\ Lower(Val(real_col)) = "meterid")
                    /\ cleaned # <<>>
         IN PayloadLoop(Tail(raw), cols, skipMeter,
                IF set THEN DictSet(sel, Val(real_col), cleaned) ELSE sel)

\* (payload.get("freq") or "D").upper(): not validated
PayloadFreq(args) ==
    LET given == ArgsGet(args, "freq", "")
    IN Upper(IF given = "" THEN "D" ELSE given)

\* payload.get("metric") or None
PayloadMetric(args) ==
    IF ArgsGet(args, "metric", "") = "" THEN None
    ELSE Some(ArgsGet(args, "metric", ""))

\* POST /filters/options up to params = FilterParams(...); nothing is built
\* when the dataset is empty
FilterOptions ==
    /\ bstage = "start"
    /\ bsel' = IF bcols = <<>> THEN <<>>
               ELSE PayloadLoop(PayloadSelections(bargs), bcols, FALSE, <<>>)
    /\ bout' = IF bcols = <<>> THEN <<>>
               ELSE <<[start |-> ParseDate(ArgsGet(bargs, "start_date", "")),
                       end |-> ParseDate(ArgsGet(bargs, "end_date", "")),
                       selections |-> bsel',
                       freq |-> PayloadFreq(bargs),
                       metric |-> PayloadMetric(bargs)]>>
    /\ bstage' = "options"
    /\ UNCHANGED <<bcols, bargs, bunit, bredir, storeVars,
                 filterVars, aggVars, routeVars>>

\* POST /options/meterid up to params = FilterParams(...); nothing is built
\* when the dataset is empty or has no meterid column
OptionsMeterid ==
    /\ bstage = "start"
    /\ bsel' = IF "meterid" \notin Range(bcols) THEN <<>>
               ELSE PayloadLoop(PayloadSelections(bargs), bcols, TRUE, <<>>)
    /\ bout' = IF "meterid" \notin Range(bcols) THEN <<>>
               ELSE <<[start |-> ParseDate(ArgsGet(bargs, "start_date", "")),
                       end |-> ParseDate(ArgsGet(bargs, "end_date", "")),
                       selections |-> bsel',
                       freq |-> "D",
                       metric |-> None]>>
    /\ bstage' = "meterid"
    /\ UNCHANGED <<bcols, bargs, bunit, bredir, storeVars,
                 filterVars, aggVars, routeVars>>

\* a FilterParams has been built from the request, by any of the three routes
ParamsBuilt == bstage \in {"done", "options", "meterid"} /\ bout # <<>>

\* the lookup with no default: a freq outside D, W, M goes through as it is
UnitOrFreq(freq) ==
    CASE freq = "D" -> "day" [] freq = "W" -> "week" [] freq = "M" -> "month"
      [] OTHER -> freq

\* FilterParams.trunc_unit: {"D": "day", "W": "week", "M": "month"}.get(freq, "day")
TruncUnit(freq) ==
    CASE freq = "D" -> "day" [] freq = "W" -> "week" [] freq = "M" -> "month"
      [] OTHER -> "day"

\* params.trunc_unit() on the FilterParams built
TruncUnitCall ==
    /\ ParamsBuilt /\ bunit = None
    /\ bunit' = Some(TruncUnit(bout[1].freq))
    /\ UNCHANGED <<bstage, bcols, bargs, bsel, bout, bredir, storeVars,
                   filterVars, aggVars, routeVars>>

\* get_base_date_bounds(base_df): ("", "") without the date column, without
\* rows or without a valid date, else the first and the last day as ISO text
BaseBounds(cols) ==
    IF DATE_COL \in Range(cols)
    THEN {<<"", "">>, <<"2024-01-05", "2024-01-06">>}
    ELSE {<<"", "">>}

\* no_filters_selected(args, base_df), bounds being what
\* get_base_date_bounds(base_df) returned
NoFiltersSelected(args, cols, bounds) ==
    LET any_checkbox == \E i \in DOMAIN cols :
                            cols[i] \notin EXCLUDE_COLS /\ GetList(args, cols[i]) # <<>>
        start_in == ArgsGet(args, "start_date", "")
        end_in == ArgsGet(args, "end_date", "")
    IN IF any_checkbox THEN FALSE
       ELSE IF start_in = "" /\ end_in = "" THEN TRUE
       ELSE (start_in = bounds[1] \/ start_in = "")
            /\ (end_in = bounds[2] \/ end_in = "")

\* index: if request.args and no_filters_selected(request.args, base):
\* redirect; the view goes on to build_params otherwise
IndexCheck ==
    /\ bstage = "start" /\ bredir = None
    /\ \E bounds \in BaseBounds(bcols) :
          bredir' = Some([redirect |-> bargs # <<>>
                                        /\ NoFiltersSelected(bargs, bcols, bounds),
                          bounds |-> bounds])
    /\ UNCHANGED <<bstage, bcols, bargs, bsel, bout, bunit, storeVars,
                   filterVars, aggVars, routeVars>>

NextParams ==
    \/ BuildColumns \/ BuildKeys \/ BuildReturn \/ FilterOptions \/ OptionsMeterid
    \/ TruncUnitCall \/ IndexCheck

SpecParams == ParamsInit /\ [][NextParams]_vars

\* C11: every key of the selections of a FilterParams built from user input
\* is a column of the dataset and is outside EXCLUDE_COLS.
C11_SelectionsOnAllowedColumns ==
    ParamsBuilt =>
        \A i \in DOMAIN bout[1].selections :
            /\ bout[1].selections[i].col \in Range(bcols)
            /\ bout[1].selections[i].col \notin EXCLUDE_COLS

\* the freq the request asks for, for a reader that ignores case
AskedFreq ==
    LET given == ArgsGet(bargs, "freq", "")
    IN CASE given \in {"d", "D"} -> "D"
         [] given \in {"w", "W"} -> "W"
         [] given \in {"m", "M"} -> "M"
         [] OTHER -> "D"

\* C22: build_params stores the freq asked for when it is d, w or m in
\* either case and D otherwise, and trunc_unit answers day, week or month:
\* day for D, week for W, month for M and day for every other stored freq.
C22_UnitIsDayWeekMonth ==
    /\ (bstage = "done" /\ bout # <<>>) => bout[1].freq = AskedFreq
    /\ (ParamsBuilt /\ IsSome(bunit)) =>
          /\ Val(bunit) \in {"day", "week", "month"}
          /\ bout[1].freq = "D" => Val(bunit) = "day"
          /\ bout[1].freq = "W" => Val(bunit) = "week"
          /\ bout[1].freq = "M" => Val(bunit) = "month"
          /\ bout[1].freq \notin {"D", "W", "M"} => Val(bunit) = "day"

\* C22 (witness): filter_options has stored a freq that is none of D, W, M
\* and trunc_unit has answered day.
C22_UnknownFreqGivesDay ==
    /\ bstage = "options" /\ bout # <<>> /\ IsSome(bunit)
    /\ bout[1].freq = "X" /\ Val(bunit) = "day"

\* the request gives K, and no other key equal to K when case is ignored
OnlyKey(K) ==
    \A j \in DOMAIN bargs : Lower(bargs[j].col) = Lower(K) => bargs[j].col = K

\* the dataset has C, and no other column equal to C when case is ignored
OnlyColumn(C) ==
    \A i \in DOMAIN bcols : Lower(bcols[i]) = Lower(C) => bcols[i] = C

\* column C is outside the exclusion set and request key K names it when
\* case is ignored
Names(K, C) ==
    /\ HasKey(bargs, K) /\ C \in Range(bcols)
    /\ C \notin EXCLUDE_COLS /\ Lower(K) = Lower(C)

\* selections[C] of the FilterParams returned is the list given for K
SelectedAs(C, K) ==
    /\ HasKey(bout[1].selections, C)
    /\ GetList(bout[1].selections, C) = GetList(bargs, K)

Redirected == bstage = "done" /\ bout # <<>> /\ IsSome(bredir) /\ Val(bredir).redirect

\* the date range of the FilterParams built keeps every day of the dataset
KeepsEveryDay ==
    LET bounds == Val(bredir).bounds
    IN /\ IsSome(bout[1].start) =>
            bounds[1] # "" /\ Val(bout[1].start) <= DayOf(bounds[1])
       /\ IsSome(bout[1].end) =>
            bounds[2] # "" /\ Val(bout[1].end) >= DayOf(bounds[2])

\* C28: whenever index redirects a request to the unfiltered dashboard, the
\* FilterParams build_params makes of it has no selection and its date range
\* excludes no day of the dataset.
C28_RedirectOnlyWithoutFilter ==
    Redirected => bout[1].selections = <<>> /\ KeepsEveryDay

\* what build_params makes of the columns and a request
BuildSelections(cols, args) == KeyLoop(args, cols, args, ColumnLoop(cols, args, <<>>))

\* the request with its keys in the opposite order
RECURSIVE Reverse(_)
Reverse(d) == IF d = <<>> THEN <<>> ELSE Append(Reverse(Tail(d)), Head(d))

\* every value the request gives for a selectable column is selected for it
NoValueLost ==
    \A j \in DOMAIN bargs : \A i \in DOMAIN bcols :
        (bcols[i] \notin EXCLUDE_COLS /\ Lower(bargs[j].col) = Lower(bcols[i])
         /\ OnlyColumn(bcols[i]))
        => Range(bargs[j].vals) \subseteq Range(GetList(bsel, bcols[i]))

\* C29: the selections build_params returns are the same when the keys of
\* the request come in another order, and hold every value the request gives
\* for a column under any spelling of its name.
C29_KeyOrderIrrelevant ==
    bstage = "done" =>
        /\ Range(BuildSelections(bcols, Reverse(bargs))) = Range(bsel)
        /\ NoValueLost

-----------------------------------------------------------------------------
(* A request through build_params, apply and to_sql_where *)

InitRequest == FilterInit \/ ParamsInit
NextRequest == NextFilter \/ NextParams
SpecRequest == InitRequest /\ [][NextRequest]_vars

\* the request without its j-th key
WithoutKey(args, j) == SubSeq(args, 1, j - 1) \o SubSeq(args, j + 1, Len(args))

\* build_params has dropped the keys of the request that match no column:
\* the selections are those of the request without such a key
UnknownKeysDropped ==
    \A j \in DOMAIN bargs :
        ~IsSome(ResolveKey(bcols, bargs[j].col))
        => /\ ~HasKey(bsel, bargs[j].col)
           /\ BuildSelections(bcols, WithoutKey(bargs, j)) = bsel

\* apply and to_sql_where have skipped the selections on a column the table
\* does not have: the rows kept and the WHERE clause are those of the
\* FilterParams without such a selection, and no IN clause names the column
AbsentColumnsSkipped ==
    /\ \A i \in DOMAIN fparams.selections :
          fparams.selections[i].col \notin ftable.cols
          => /\ Apply(WithoutSelection(fparams, i), ftable, DATE_COL) = fkept
             /\ ToSqlWhere(WithoutSelection(fparams, i), DATE_COL, Some(ftable.cols))
                  = fsql[1]
    /\ \A k \in DOMAIN fsql[1].clause :
          fsql[1].clause[k].kind = "IN" => fsql[1].clause[k].col \in ftable.cols

\* C24: a filter on a column the dataset does not have is ignored: build_params
\* drops the request keys that match no column, apply and to_sql_where skip
\* the selections whose column is absent, and what remains is applied as if
\* the unknown filter had not been given.
C24_UnknownFiltersIgnored ==
    /\ bstage = "done" => UnknownKeysDropped
    /\ fstage = "done" => AbsentColumnsSkipped

\* C24 (witness): a selection with a value on a column the table lacks was
\* given together with a selection that removes rows; both paths have run
\* and the query has not failed.
C24_AbsentColumnSkippedOthersApplied ==
    /\ fstage = "done" /\ fsql[2].ok
    /\ \E i \in DOMAIN fparams.selections :
          /\ fparams.selections[i].col \notin ftable.cols
          /\ ~Neutral(fparams.selections[i].vals)
    /\ fkept # DOMAIN ftable.rows /\ fkept # {}
    /\ Len(fsql[1].params) > 0

-----------------------------------------------------------------------------
(* Properties of the FilterParams scenario *)

\* C12: an entry of the selections whose list is empty, or holds only empty
\* strings and None, changes nothing: the rows apply kept and the clauses and
\* parameters to_sql_where returned are those of the FilterParams without it.
C12_EmptySelectionNeutral ==
    fstage \in {"compiled", "done"} =>
        \A i \in DOMAIN fparams.selections :
            Neutral(fparams.selections[i].vals) =>
                /\ fkept = Apply(WithoutSelection(fparams, i), ftable, DATE_COL)
                /\ fsql[1] = ToSqlWhere(WithoutSelection(fparams, i), DATE_COL,
                                        Some(ftable.cols))

\* both paths have run with a list of an empty string on a column of the
\* table, next to a date bound, and rows were kept
C12_BlankListIgnored ==
    /\ fstage = "done"
    /\ \E i \in DOMAIN fparams.selections :
          /\ fparams.selections[i].vals = <<"">>
          /\ fparams.selections[i].col \in ftable.cols
    /\ IsSome(fparams.start) /\ DATE_COL \in ftable.cols
    /\ fkept # {}
    /\ Len(fsql[1].clause) = 1

\* how often the piece x occurs in the string text
Count(text, x) == Cardinality({k \in DOMAIN text : text[k] = x})

\* the entries of the selections that give a clause: a value that is neither
\* None nor empty, on a column of the table
Contributing(f, t) ==
    {i \in DOMAIN f.selections :
        /\ f.selections[i].col \in t.cols
        /\ ~Neutral(f.selections[i].vals)}

\* the number of clauses the FilterParams asks for
ClausesAsked(f, t) ==
    (IF IsSome(f.start) \/ IsSome(f.end) THEN 1 ELSE 0)
    + Cardinality(Contributing(f, t))

\* the " AND " inside BETWEEN ? AND ?
InnerAnds(f) == IF IsSome(f.start) /\ IsSome(f.end) THEN 1 ELSE 0

\* C13: with no date bound and no contributing selection to_sql_where returns
\* "1=1" and no parameter; otherwise the string is the clauses asked for,
\* joined by " AND ": one " AND " between two clauses, none at either end.
C13_NeverDangling ==
    fstage \in {"compiled", "done"} =>
        LET text == fsql[1].text
            n == ClausesAsked(fparams, ftable)
        IN IF n = 0
           THEN text = <<"1=1">> /\ fsql[1].params = <<>>
           ELSE /\ Count(text, "1=1") = 0
                /\ Count(text, "CAST(") = n
                /\ Count(text, " AND ") = n - 1 + InnerAnds(fparams)
                /\ text[1] = "CAST("
                /\ text[Len(text)] \in {"?", ")"}

\* to_sql_where has returned "1=1" for selections that are all empty or on
\* no column of the table
C13_TautologyForIdleSelections ==
    /\ fstage = "done"
    /\ Len(fparams.selections) = MaxSelections
    /\ fsql[1].text = <<"1=1">>

\* the values the FilterParams carries, in the order of their clauses: the
\* date bounds, then the cleaned values of each contributing selection
RECURSIVE ValuesAsked(_, _, _)
ValuesAsked(f, t, i) ==
    IF i > Len(f.selections) THEN <<>>
    ELSE (IF i \in Contributing(f, t) THEN CleanVals(f.selections[i].vals) ELSE <<>>)
         \o ValuesAsked(f, t, i + 1)

DatesAsked(f) ==
    (IF IsSome(f.start) THEN <<IsoFormat(Val(f.start))>> ELSE <<>>)
    \o (IF IsSome(f.end) THEN <<IsoFormat(Val(f.end))>> ELSE <<>>)

\* C14: no date bound and no selection value is a piece of the predicate
\* string; the string has one '?' per value, and the parameter list is the
\* values in the order of their placeholders.
C14_ValuesOnlyAsParameters ==
    fstage \in {"compiled", "done"} =>
        LET text == fsql[1].text
            params == fsql[1].params
        IN /\ \A k \in DOMAIN params : params[k] \notin Range(text)
           /\ Count(text, "?") = Len(params)
           /\ params = DatesAsked(fparams) \o ValuesAsked(fparams, ftable, 1)

\* to_sql_where has returned a date range and a list of two values: four
\* placeholders and four parameters
C14_FourPlaceholders ==
    /\ fstage = "done"
    /\ IsSome(fparams.start) /\ IsSome(fparams.end)
    /\ \E i \in Contributing(fparams, ftable) :
          Len(CleanVals(fparams.selections[i].vals)) = 2
    /\ Len(fsql[1].params) = 4

-----------------------------------------------------------------------------
(* Aggregates over a filtered table: pie_data, compute_stats,
   compute_summary, Metrics *)

\* the number of segments of the pie whose rows vary
MaxFree == 3

\* top_n of pie_data
top_n == 8

\* the amount a float64 cell stands for
Amount(v) ==
    CASE v = "1.0" -> 1 [] v = "2.0" -> 2 [] v = "3.0" -> 3
      [] v = "4.0" -> 4 [] v = "5.0" -> 5 [] v = "6.0" -> 6
      [] v = "7.0" -> 7 [] v = "8.0" -> 8 [] OTHER -> 9

RECURSIVE SumSeq(_)
SumSeq(s) == IF s = <<>> THEN 0 ELSE Head(s) + SumSeq(Tail(s))

\* Metrics.label(key)
Label(key) ==
    CASE key = "kwh" -> "kWh" [] key = "paymoney" -> "Pay" [] key = "ghc" -> "GHC"
      [] OTHER -> key

\* the metric asked, when it is registered, whatever the table
Registered(t, metric) ==
    IF metric # None /\ Val(metric) \in METRICS THEN metric ELSE None

\* Metrics.validate(df, metric)
Validate(t, metric) ==
    IF metric = None \/ metric = Some("") THEN None
    ELSE IF Val(metric) \in t.cols /\ Val(metric) \in METRICS THEN metric
    ELSE None

\* the registry Metrics.mapping, in the order of its keys
Mapping == <<"kwh", "paymoney", "ghc">>

\* Metrics.available(df)
Available(t) ==
    LET InTable(k) == k \in t.cols
        keys == SelectSeq(Mapping, InTable)
    IN [i \in DOMAIN keys |-> <<keys[i], Label(keys[i])>>]

\* DataFrame.empty
IsEmpty(t) == t.cols = {} \/ t.rows = <<>>

\* df.dropna(subset=[col])
DropNa(rows, col) ==
    LET Has(r) == r[col] # NA IN SelectSeq(rows, Has)

\* the keys of series.groupby(series[segment_col].astype(str))
GroupKeys(rows, segment_col) ==
    {PdStr(segment_col, rows[i][segment_col]) : i \in DOMAIN rows}

\* [metric].sum() of one group
GroupSum(rows, segment_col, metric, k) ==
    LET In(r) == PdStr(segment_col, r[segment_col]) = k
        group == SelectSeq(rows, In)
    IN SumSeq([i \in DOMAIN group |-> Amount(group[i][metric])])

\* sort_values(ascending=False): every order of the keys in which the sums
\* never increase (the order among equal sums is the sort's choice)
RECURSIVE SortedDesc(_, _)
SortedDesc(keys, sum) ==
    IF keys = {} THEN {<<>>}
    ELSE LET top == {k \in keys : \A j \in keys : sum[k] >= sum[j]}
         IN UNION {{<<k>> \o rest : rest \in SortedDesc(keys \ {k}, sum)} : k \in top}

\* every group as it is, nothing folded
NoFold(order, sum) ==
    [labels |-> order, values |-> [i \in DOMAIN order |-> sum[order[i]]]]

\* the labels and values of the pie: the top_n first groups and "Other"
Fold(order, sum) ==
    IF Len(order) > top_n
    THEN [labels |-> Append(SubSeq(order, 1, top_n), "Other"),
          values |-> Append([i \in 1..top_n |-> sum[order[i]]],
                            SumSeq([i \in 1..(Len(order) - top_n) |->
                                        sum[order[top_n + i]]]))]
    ELSE [labels |-> order, values |-> [i \in DOMAIN order |-> sum[order[i]]]]

\* segment_col of pie_data
SegmentCol(t) ==
    IF "res_mapped" \in t.cols THEN Some("res_mapped")
    ELSE IF "loc" \in t.cols THEN Some("loc") ELSE None

\* the rows pie_data groups: those with a segment and a numeric measure
PieSeries(t, segment_col, metric) == DropNa(DropNa(t.rows, segment_col), metric)

\* what pie_data answers for the filtered table and the metric asked, for
\* each order the sort may give
PieAnswers(t, asked) ==
    LET metric == Validate(t, asked)
        segment_col == SegmentCol(t)
    IN IF metric = None \/ segment_col = None \/ IsEmpty(t)
       THEN {[labels |-> <<>>, values |-> <<>>,
              metric_label |-> IF asked = None THEN "" ELSE Val(asked),
              segment |-> IF segment_col = None THEN "" ELSE Val(segment_col)]}
       ELSE LET series == PieSeries(t, Val(segment_col), Val(metric))
                keys == GroupKeys(series, Val(segment_col))
                sum == [k \in keys |-> GroupSum(series, Val(segment_col), Val(metric), k)]
            IN IF series = <<>>
               THEN {[labels |-> <<>>, values |-> <<>>,
                      metric_label |-> Label(Val(metric)),
                      segment |-> Val(segment_col)]}
               ELSE {[labels |-> Fold(order, sum).labels,
                      values |-> Fold(order, sum).values,
                      metric_label |-> Label(Val(metric)),
                      segment |-> Val(segment_col)] : order \in SortedDesc(keys, sum)}

\* the tables of the pie: seven segments with one row each, of the amounts
\* 3 to 9, and MaxFree segments whose rows vary
PieRow(loc, kwh) == [loc |-> loc, kwh |-> kwh]

FixedRows ==
    <<PieRow("s3", "3.0"), PieRow("s4", "4.0"), PieRow("s5", "5.0"),
      PieRow("s6", "6.0"), PieRow("s7", "7.0"), PieRow("s8", "8.0"),
      PieRow("s9", "9.0")>>

\* one of them is a location that is itself called "Other"
FreeLocs == <<"Other", "b", "c", "d", "e">>

\* the measures of the rows of one varying segment
FreeCells == {<<>>, <<NA>>, <<"1.0">>, <<"2.0">>, <<"2.0", "2.0">>}

RECURSIVE FreeRows(_, _)
FreeRows(choice, i) ==
    IF i > MaxFree THEN <<>>
    ELSE [k \in DOMAIN choice[i] |-> PieRow(FreeLocs[i], choice[i][k])]
         \o FreeRows(choice, i + 1)

PieTables ==
    {Table({"loc", "kwh"}, FreeRows(choice, 1) \o FixedRows) :
        choice \in [1..MaxFree -> FreeCells]}

\* most rows of the small tables the statistics are taken of
MaxAggRows == 2

\* the cells of a snapshot's columns
AggCells(c) ==
    CASE c = DATE_COL -> ParsedDates \cup {NA}
      [] c \in METRICS -> {"1.0", "2.0", NA}
      [] c = "meterid" -> {"m1", "m2"}
      [] OTHER -> {"a", "b"}

AggRows(cols) == {r \in [cols -> UNION {AggCells(c) : c \in cols}] :
                     \A c \in cols : r[c] \in AggCells(c)}

\* small filtered tables: with and without measures, date, meter and
\* location columns
SmallTables ==
    UNION {{Table(cs, rows) : rows \in SeqUpTo(AggRows(cs), MaxAggRows)} :
              cs \in {{"loc"}, {"kwh", "loc"}, {"kwh", "ghc"},
                       {DATE_COL, "meterid"}, {DATE_COL, "loc", "kwh"}}}
    \cup {EmptyTable}

\* pd.to_numeric(df[key], errors="coerce"), nothing dropped: a missing value
\* counted as 0
AllAmounts(t, key) ==
    [i \in DOMAIN t.rows |-> IF t.rows[i][key] = NA THEN 0 ELSE Amount(t.rows[i][key])]

\* s = pd.to_numeric(df[key], errors="coerce").dropna()
NumericValues(t, key) ==
    LET kept == DropNa(t.rows, key)
    IN [i \in DOMAIN kept |-> Amount(kept[i][key])]

\* the values in ascending order
RECURSIVE SortedAsc(_)
SortedAsc(s) ==
    IF s = <<>> THEN <<>>
    ELSE LET i == CHOOSE i \in DOMAIN s : \A j \in DOMAIN s : s[i] <= s[j]
         IN <<s[i]>> \o SortedAsc(SubSeq(s, 1, i - 1) \o SubSeq(s, i + 1, Len(s)))

\* a float as a fraction
Frac(num, den) == [num |-> num, den |-> den]

\* s.median(): the middle value, or the mean of the two middle values
Median(s) ==
    LET a == SortedAsc(s)
        n == Len(s)
    IN IF n % 2 = 1 THEN Frac(a[(n + 1) \div 2], 1)
       ELSE Frac(a[n \div 2] + a[n \div 2 + 1], 2)

\* the entry of one measure
StatsEntry(key, s) ==
    [label |-> Label(key),
     sum |-> SumSeq(s),
     mean |-> Frac(SumSeq(s), Len(s)),
     median |-> Median(s),
     min |-> SortedAsc(s)[1],
     max |-> SortedAsc(s)[Len(s)]]

\* DataStore.compute_stats(df)
ComputeStatsOf(t) ==
    LET keys == {key \in METRICS : key \in t.cols /\ Len(NumericValues(t, key)) > 0}
    IN [key \in keys |-> StatsEntry(key, NumericValues(t, key))]

\* Series.nunique(): the number of distinct values, missing ones not counted
NUnique(t, col) == Cardinality({t.rows[i][col] : i \in DOMAIN t.rows} \ {NA})

\* the days of every cell of the column, a missing date read as a date
AnyDays(t, col) == {DayOf(t.rows[i][col]) : i \in DOMAIN t.rows}

\* the days of pd.to_datetime(df[col], errors="coerce") that are not NaT
ValidDays(t, col) ==
    {DayOf(t.rows[i][col]) : i \in {j \in DOMAIN t.rows : t.rows[j][col] # NA}}

\* DataStore.compute_summary(df)
ComputeSummaryOf(t) ==
    LET dated == DATE_COL \in t.cols /\ Len(t.rows) > 0
        days == IF dated THEN ValidDays(t, DATE_COL) ELSE {}
    IN [rows |-> Len(t.rows),
        cols |-> Cardinality(t.cols),
        meters |-> IF "meterid" \in t.cols THEN Some(NUnique(t, "meterid")) ELSE None,
        locations |-> IF "loc" \in t.cols THEN Some(NUnique(t, "loc")) ELSE None,
        date_min |-> IF days = {} THEN ""
                     ELSE IsoFormat(CHOOSE d \in days : \A e \in days : d <= e),
        date_max |-> IF days = {} THEN ""
                     ELSE IsoFormat(CHOOSE d \in days : \A e \in days : d >= e)]

\* the metrics a request names: none, registered ones, one not registered
MetricsAsked == {None, Some("kwh"), Some("ghc"), Some("loc")}

AggInit ==
    /\ StoreIdle /\ FilterIdle /\ ParamsIdle /\ RoutesIdle
    /\ gstage = "ready"
    /\ gtable \in PieTables \cup SmallTables
    /\ gmetric \in MetricsAsked
    /\ gout = <<>>

\* GET /pie-data, from the filtered table on
PieData ==
    /\ gstage = "ready"
    /\ \E answer \in PieAnswers(gtable, gmetric) : gout' = <<answer>>
    /\ gstage' = "pie"
    /\ UNCHANGED <<gtable, gmetric, storeVars, filterVars, paramVars,
                   routeVars>>

\* stats = datastore.compute_stats(after)
ComputeStats ==
    /\ gstage = "ready"
    /\ gout' = <<ComputeStatsOf(gtable)>>
    /\ gstage' = "stats"
    /\ UNCHANGED <<gtable, gmetric, storeVars, filterVars, paramVars,
                   routeVars>>

\* summary = datastore.compute_summary(after)
ComputeSummary ==
    /\ gstage = "ready"
    /\ gout' = <<ComputeSummaryOf(gtable)>>
    /\ gstage' = "summary"
    /\ UNCHANGED <<gtable, gmetric, storeVars, filterVars, paramVars,
                   routeVars>>

\* metric = metrics.validate(filtered, params.metric)
MetricsValidate ==
    /\ gstage = "ready"
    /\ gout' = <<Validate(gtable, gmetric)>>
    /\ gstage' = "validate"
    /\ UNCHANGED <<gtable, gmetric, storeVars, filterVars, paramVars,
                   routeVars>>

\* chart_metrics = metrics.available(after)
MetricsAvailable ==
    /\ gstage = "ready"
    /\ gout' = <<Available(gtable)>>
    /\ gstage' = "available"
    /\ UNCHANGED <<gtable, gmetric, storeVars, filterVars, paramVars,
                   routeVars>>

NextAgg ==
    PieData \/ ComputeStats \/ ComputeSummary \/ MetricsValidate \/ MetricsAvailable

SpecAgg == AggInit /\ [][NextAgg]_vars

\* pie_data has grouped rows of the table
PieGrouped == gstage = "pie" /\ gout[1].labels # <<>>

\* the distinct segment values of the filtered rows
SegmentValues(t) ==
    {t.rows[i].loc : i \in DOMAIN t.rows} \ {NA}

\* the segment values with a measure: the groups pie_data sums
Groups(t) == GroupKeys(PieSeries(t, "loc", "kwh"), "loc")

\* the answer for the distinct values D: folded to top_n groups and "Other"
\* when there are more than top_n, every group otherwise
FoldedFor(D) ==
    LET labels == gout[1].labels
        values == gout[1].values
        total == SumSeq([i \in DOMAIN gtable.rows |->
                            IF gtable.rows[i].kwh = NA THEN 0
                            ELSE Amount(gtable.rows[i].kwh)])
    IN /\ SumSeq(values) = total
       /\ \A i \in DOMAIN labels \ {Len(labels)} : values[i] >= values[i + 1]
                                                    \/ i + 1 = top_n + 1
       /\ IF Cardinality(D) > top_n
          THEN /\ Len(labels) = top_n + 1
               /\ labels[top_n + 1] = "Other"
               /\ \A i \in 1..top_n :
                     /\ labels[i] \in D
                     /\ values[i] = GroupSum(gtable.rows, "loc", "kwh", labels[i])
                     /\ \A k \in D \ {labels[j] : j \in 1..top_n} :
                           values[i] >= GroupSum(DropNa(gtable.rows, "kwh"), "loc", "kwh", k)
          ELSE /\ Len(labels) = Cardinality(Groups(gtable))
               /\ {labels[i] : i \in DOMAIN labels} = Groups(gtable)

C30_LabelsDistinct ==
    gstage = "pie" =>
        \A i, j \in DOMAIN gout[1].labels :
            i # j => gout[1].labels[i] # gout[1].labels[j]

\* the measure has a value in some row of the table
HasValue(t, key) == \E i \in DOMAIN t.rows : t.rows[i][key] # NA

\* C16: compute_stats has an entry for a name exactly when the name is a
\* registered measure, a column of the table and has a value in some row; an
\* entry is made of numbers taken from those values.
C16_StatsOnlyForMeasuresWithValues ==
    gstage = "stats" =>
        /\ \A key \in METRICS \cup gtable.cols :
              key \in DOMAIN gout[1] <=>
                  (key \in METRICS /\ key \in gtable.cols /\ HasValue(gtable, key))
        /\ \A key \in DOMAIN gout[1] :
              /\ gout[1][key].mean.den > 0
              /\ gout[1][key].min >= 1
              /\ gout[1][key].min <= gout[1][key].max
              /\ gout[1][key].sum >= gout[1][key].max

\* the statistics of a table with rows, where kwh has no value and ghc has
\* one: an entry for ghc, none for kwh
C16_EmptyMeasureOmitted ==
    /\ gstage = "stats"
    /\ gtable.rows # <<>>
    /\ {"kwh", "ghc"} \subseteq gtable.cols
    /\ ~HasValue(gtable, "kwh")
    /\ DOMAIN gout[1] = {"ghc"}

\* the table has a date that is not missing
HasValidDate(t) ==
    DATE_COL \in t.cols /\ \E i \in DOMAIN t.rows : t.rows[i][DATE_COL] # NA

\* C17: compute_summary gives the numbers of rows and of columns, meters
\* (locations) null exactly when there is no meterid (loc) column, and empty
\* date bounds whenever the table has no valid date; on the empty dataset it
\* gives rows = 0 and empty date bounds.
C17_SummaryOfAnyTable ==
    gstage = "summary" =>
        /\ gout[1].rows = Len(gtable.rows)
        /\ gout[1].cols = Cardinality(gtable.cols)
        /\ gout[1].meters = None <=> "meterid" \notin gtable.cols
        /\ gout[1].locations = None <=> "loc" \notin gtable.cols
        /\ ~HasValidDate(gtable) => gout[1].date_min = "" /\ gout[1].date_max = ""
        /\ gtable = EmptyTable =>
              gout[1].rows = 0 /\ gout[1].date_min = "" /\ gout[1].date_max = ""

\* the summary of a table with meters, without locations, whose dates are
\* all missing
C17_MissingDatesGiveEmptyBounds ==
    /\ gstage = "summary"
    /\ DATE_COL \in gtable.cols
    /\ Len(gtable.rows) = MaxAggRows
    /\ ~HasValidDate(gtable)
    /\ gout[1].date_min = ""
    /\ gout[1].meters # None
    /\ gout[1].locations = None

\* C18: validate returns the metric asked exactly when it is a key of the
\* registry and a column of the table, and None otherwise; available lists
\* exactly the registered measures that are columns of the table.
C18_AvailableIffRegisteredAndPresent ==
    /\ gstage = "validate" =>
          IF gmetric # None /\ Val(gmetric) \in METRICS /\ Val(gmetric) \in gtable.cols
          THEN gout[1] = gmetric
          ELSE gout[1] = None
    /\ gstage = "available" =>
          /\ {gout[1][i][1] : i \in DOMAIN gout[1]} = METRICS \cap gtable.cols
          /\ Len(gout[1]) = Cardinality(METRICS \cap gtable.cols)

\* validate has refused a registered measure that is no column of the table
C18_RegisteredButAbsentRefused ==
    /\ gstage = "validate"
    /\ gmetric = Some("ghc")
    /\ "kwh" \in gtable.cols /\ "ghc" \notin gtable.cols
    /\ gout[1] = None

-----------------------------------------------------------------------------
(* The routes that query prod.sales: chart_data, index, filter_options,   *)
(* options_meterid.  The snapshot get() returns and prod.sales hold the    *)
(* same table; its rows all have a date.                                   *)

\* most rows of the table behind the routes
MaxChartRows == 2

ChartDates == {"2024-01-05", "2024-01-06", "2024-01-08"}

\* the day of January 2024 a date is
ChartDay(s) ==
    CASE s = "2024-01-05" -> 5 [] s = "2024-01-06" -> 6 [] OTHER -> 8

\* date.isoformat() of a day of January 2024
DayIso(d) ==
    CASE d = 1 -> "2024-01-01" [] d = 5 -> "2024-01-05" [] d = 6 -> "2024-01-06"
      [] OTHER -> "2024-01-08"

\* date_trunc(unit, d) on a day of January 2024, whose first day is a Monday
DateTrunc(unit, d) ==
    CASE unit = "week" -> d - ((d - 1) % 7)
      [] unit = "month" -> 1
      [] OTHER -> d

RouteCells(c) ==
    CASE c = DATE_COL -> ChartDates
      [] c = "kwh" -> {"1.0", "2.0", NA}
      [] c = "loc" -> {"a", NA}
      [] OTHER -> {"m1", "m2"}

RouteRows(cols) == {r \in [cols -> UNION {RouteCells(c) : c \in cols}] :
                       \A c \in cols : r[c] \in RouteCells(c)}

\* the datasets: date and measure, with a location or a meter column or not
RouteTables ==
    UNION {{Table(cs, rows) : rows \in SeqUpTo(RouteRows(cs), MaxChartRows)} :
              cs \in {{DATE_COL, "kwh"}, {DATE_COL, "kwh", "loc"},
                      {DATE_COL, "kwh", "meterid"}}}

\* params.metric split at the commas: absent, one measure, a measure and a
\* name that is no measure
MetricLists == {<<"">>, <<"kwh">>, <<"kwh", "zone">>}

\* the requests: freq as build_params stores it, the metrics, start_date
\* absent or the 6th of January
RouteRequests ==
    [freq : {"D", "W", "M"}, metrics : MetricLists, start : {None, Some(6)}]

\* WHERE CAST(date_col AS DATE) >= ?, or 1=1; apply keeps the same rows
Filtered(t, start) ==
    LET Keep(r) == start = None \/ ChartDay(r[DATE_COL]) >= Val(start)
    IN SelectSeq(t.rows, Keep)

\* date_trunc(unit, date_col) AS bucket of one row
BucketOf(unit, row) == DateTrunc(unit, ChartDay(row[DATE_COL]))

\* ORDER BY 1
RECURSIVE Ascending(_)
Ascending(S) ==
    IF S = {} THEN <<>>
    ELSE LET m == CHOOSE x \in S : \A y \in S : x <= y
         IN <<m>> \o Ascending(S \ {m})

\* AVG(m) of one bucket: NULL when no row of the bucket has a value
Avg(rows, unit, b, m) ==
    LET In(r) == BucketOf(unit, r) = b /\ r[m] # NA
        g == SelectSeq(rows, In)
    IN IF g = <<>> THEN None
       ELSE Some(Frac(SumSeq([i \in DOMAIN g |-> Amount(g[i][m])]), Len(g)))

\* SELECT date_trunc(unit, date_col) AS bucket, AVG(m) AS m, ... FROM prod.sales
\* WHERE clause GROUP BY 1 ORDER BY 1
ChartQuery(t, unit, metrics, start) ==
    LET rows == Filtered(t, start)
        bs == Ascending({BucketOf(unit, rows[i]) : i \in DOMAIN rows})
    IN [i \in DOMAIN bs |->
          [bucket |-> bs[i],
           avg |-> [k \in DOMAIN metrics |-> Avg(rows, unit, bs[i], metrics[k])]]]

\* _fmt(ts) of chart_data
Fmt(freq, b) == IF freq = "M" THEN "2024-01" ELSE DayIso(b)

\* datastore.run_query raises
RunQueryRaises == rengine # "ok"

\* float(v) if pd.notna(v) else 0.0
FloatOrZero(avg) == IF avg = None THEN Frac(0, 1) ELSE Val(avg)

\* GET /chart-data: status "error" is the exception leaving the view;
\* buckets (history) are the bucket keys behind the labels
ChartAnswer(t, r) ==
    LET Valid(m) == Validate(t, Some(m)) # None
        validated == SelectSeq(r.metrics, Valid)
        result == ChartQuery(t, TruncUnit(r.freq), validated, r.start)
    IN IF validated = <<>>
       THEN [status |-> "ok", queried |-> FALSE, buckets |-> <<>>,
             labels |-> <<>>, values |-> <<>>]
       ELSE IF RunQueryRaises
       THEN [status |-> "error", queried |-> TRUE, buckets |-> <<>>,
             labels |-> <<>>, values |-> <<>>]
       ELSE [status |-> "ok", queried |-> TRUE,
             buckets |-> [i \in DOMAIN result |-> result[i].bucket],
             labels |-> [i \in DOMAIN result |-> Fmt(r.freq, result[i].bucket)],
             values |-> [k \in DOMAIN validated |->
                           [metric |-> validated[k],
                            vals |-> [i \in DOMAIN result |->
                                        FloatOrZero(result[i].avg[k])]]]]

\* SELECT DISTINCT col ... WHERE col IS NOT NULL, and dropna().unique()
Distinct(rows, c) == {rows[i][c] : i \in DOMAIN rows} \ {NA}

\* build_unique_values(df): the values of every column outside EXCLUDE_COLS
BuildUniqueValues(rows, cols) ==
    [c \in cols \ EXCLUDE_COLS |-> Distinct(rows, c)]

\* index, from unique_values to the response: the two queries in try/except
IndexAnswer(t, r) ==
    IF IsEmpty(t)
    THEN [status |-> "ok", page |-> "upload", queried |-> FALSE, options |-> <<>>]
    ELSE LET after == Filtered(t, r.start)
             unique_values == BuildUniqueValues(after, t.cols)
             meterids == IF "meterid" \in t.cols /\ ~RunQueryRaises
                         THEN [unique_values EXCEPT
                                  !["meterid"] = Distinct(t.rows, "meterid")]
                         ELSE unique_values
             locs == IF "loc" \in t.cols /\ ~RunQueryRaises
                     THEN [meterids EXCEPT !["loc"] = Distinct(after, "loc")]
                     ELSE meterids
         IN [status |-> "ok", page |-> "index",
             queried |-> "meterid" \in t.cols \/ "loc" \in t.cols,
             options |-> locs]

\* POST /filters/options, from the queries on: distinct() per facet, the date
\* bounds, the row count
FilterOptionsAnswer(t, r) ==
    IF IsEmpty(t)
    THEN [status |-> "ok", queried |-> FALSE, options |-> <<>>,
          dates |-> <<"", "">>, rows |-> 0]
    ELSE IF RunQueryRaises
    THEN [status |-> "error", queried |-> TRUE, options |-> <<>>,
          dates |-> <<"", "">>, rows |-> 0]
    ELSE LET rows == Filtered(t, r.start)
             days == Ascending({ChartDay(rows[i][DATE_COL]) : i \in DOMAIN rows})
         IN [status |-> "ok", queried |-> TRUE,
             options |-> [c \in {"loc", "res_mapped", "meterid"} \cap t.cols |->
                            Distinct(rows, c)],
             dates |-> IF days = <<>> THEN <<"", "">>
                       ELSE <<DayIso(days[1]), DayIso(days[Len(days)])>>,
             rows |-> Len(rows)]

\* GET /options/meterid: the query names the meterid column
OptionsMeteridAnswer(t) ==
    IF RunQueryRaises \/ "meterid" \notin t.cols
    THEN [status |-> "error", queried |-> TRUE, options |-> {}]
    ELSE [status |-> "ok", queried |-> TRUE, options |-> Distinct(t.rows, "meterid")]

RoutesInit ==
    /\ StoreIdle /\ FilterIdle /\ ParamsIdle /\ AggIdle
    /\ rstage = "ready"
    /\ rbase \in RouteTables
    /\ rengine \in {"ok", "unavailable"}
    /\ rreq \in RouteRequests
    /\ rout = <<>>

ChartData ==
    /\ rstage = "ready"
    /\ rout' = <<ChartAnswer(rbase, rreq)>>
    /\ rstage' = "chart"
    /\ UNCHANGED <<rbase, rengine, rreq, storeVars, filterVars, paramVars, aggVars>>

IndexOptions ==
    /\ rstage = "ready"
    /\ rout' = <<IndexAnswer(rbase, rreq)>>
    /\ rstage' = "index"
    /\ UNCHANGED <<rbase, rengine, rreq, storeVars, filterVars, paramVars, aggVars>>

FilterOptionsQueries ==
    /\ rstage = "ready"
    /\ rout' = <<FilterOptionsAnswer(rbase, rreq)>>
    /\ rstage' = "options"
    /\ UNCHANGED <<rbase, rengine, rreq, storeVars, filterVars, paramVars, aggVars>>

OptionsMeteridGet ==
    /\ rstage = "ready"
    /\ rout' = <<OptionsMeteridAnswer(rbase)>>
    /\ rstage' = "meterid"
    /\ UNCHANGED <<rbase, rengine, rreq, storeVars, filterVars, paramVars, aggVars>>

NextRoutes == ChartData \/ IndexOptions \/ FilterOptionsQueries \/ OptionsMeteridGet

SpecRoutes == RoutesInit /\ [][NextRoutes]_vars

\* C21: a route that called run_query while the engine fails answers with an
\* error: the failure is not caught and replaced by other data.
C21_QueryFailureSurfaced ==
    (rout # <<>> /\ rout[1].queried /\ RunQueryRaises) => rout[1].status = "error"

\* some filtered row of bucket b has a value of measure m
HasData(rows, unit, b, m) ==
    \E i \in DOMAIN rows : BucketOf(unit, rows[i]) = b /\ rows[i][m] # NA

\* C23: with the engine working, chart_data answers without an error, its
\* buckets ascend, every value it returns is the average of a bucket that has
\* data for the measure and none is a zero put in for a missing average, and
\* the answer is empty when no row matches the filter.
C23_EmptyBucketsOmitted ==
    (rstage = "chart" /\ ~RunQueryRaises) =>
        LET a == rout[1]
            rows == Filtered(rbase, rreq.start)
            unit == TruncUnit(rreq.freq)
        IN /\ a.status = "ok"
           /\ \A i \in DOMAIN a.buckets \ {1} : a.buckets[i - 1] < a.buckets[i]
           /\ \A k \in DOMAIN a.values : \A i \in DOMAIN a.values[k].vals :
                 /\ HasData(rows, unit, a.buckets[i], a.values[k].metric)
                 /\ a.values[k].vals[i] # Frac(0, 1)
           /\ rows = <<>> => a.labels = <<>>

=============================================================================
